---- MODULE Spec2Model ----
(***************************************************************************)
(* A model of the ika-api relay: the Discord and Slack adapters, the       *)
(* application gateway and the from-ika dispatch, over the shared          *)
(* ChannelIntegrations store and the two bus channels to-ika and from-ika. *)
(*                                                                         *)
(* Strings that the code splits or searches (the bus "sender", display     *)
(* names, tokens) are sequences of tokens.  A token is either one of the   *)
(* separator characters the code looks for, or a run of characters that    *)
(* holds none of them, so split and substring search are exact on them.    *)
(***************************************************************************)
EXTENDS Naturals, Integers, Sequences, FiniteSets, Bags, TLC

\* ------------------------------------------------------------- bounds

\* Integration records ever created (ids are never reused).
MaxId == 2
\* Handler tasks in flight at one time.
MaxTasks == 2
\* Events held on to-ika before the IRC side consumes them.
MaxBus == 1
\* Gateway connections open at one time.
MaxConns == 2
\* Rows of the Snippets table.
MaxSnippets == 1

\* --------------------------------------------------------- the universe

\* The fullwidth commercial at U+FF20 the adapters put between the display
\* name and their platform marker.
FWAT == "FWAT"

\* Discord text channels and Slack channels the commands and messages come from.
DiscordChannels == {"C1", "C2"}
SlackChannels == {"S1"}

\* The Channel lookup finds a row whatever the name.
AnyChannelName == {"general", "random", "nochan"}

\* Rows of the Channels table: name -> id.
ChannelNames == {"general", "random"}
ChannelIdOf(name) == IF name = "general" THEN 1 ELSE 2
ChannelNameOf(id) == IF id = 1 THEN "general" ELSE "random"

\* Channel names given to the attach commands: a known one and an unknown one.
AttachNames == {"general", "nochan"}

\* discord.user.id, the bot account's own id.
BotUserId == 1
\* A human author; webhook n has id WebhookBase + n.
HumanUserId == 2
WebhookBase == 100

NoEvent == [event |-> "none"]
NoResp == "none"
NoSrc == [kind |-> "none", id |-> 0]

\* The listeners in the order the modules register them (main.py imports
\* app.route, then the Discord adapter, then the Slack adapter).
redis_listeners == <<"gateway", "discord", "slack">>

VARIABLES
    integrations,   \* the ChannelIntegrations table: a set of records
    nextId,         \* the table's next auto-increment id
    webhooks,       \* the webhooks existing on Discord: [id, channel]
    nextWebhook,    \* the next webhook Discord creates
    snippets,       \* the number of rows of the Snippets table
    tasks,          \* handler tasks suspended at an await: a bag of records
    toIka,          \* events published on to-ika, not yet consumed by the IRC
                    \* side: [ev |-> the event, src |-> who published it]
    inbox,          \* the event the subscriber last received on from-ika, with
                    \* the listeners whose task has not run yet
    posts,          \* what the adapters posted to the platforms for that event
    frames,         \* what the gateway sent to its connections for that event
    raised,         \* the listeners whose task raised on that event
    subscriber,     \* "running" while redis_subscribe's loop is alive
    websockets,     \* the gateway's connection list
    wsState,        \* connection -> ws.state (app, channels)
    resp            \* the last response sent to a command or request

regVars == <<integrations, nextId, webhooks, nextWebhook, snippets>>
busVars == <<inbox, posts, frames, raised, subscriber>>
wsVars == <<websockets, wsState>>
vars == <<integrations, nextId, webhooks, nextWebhook, snippets, tasks, toIka,
          inbox, posts, frames, raised, subscriber, websockets, wsState, resp>>

\* ------------------------------------------------------------ strings

\* The index of the first occurrence of token c in s, 0 when there is none.
RECURSIVE IndexFrom(_, _, _)
IndexFrom(s, c, i) ==
    IF i > Len(s) THEN 0
    ELSE IF s[i] = c THEN i
    ELSE IndexFrom(s, c, i + 1)

\* str.split(sep) for a one-character sep: the list of the parts.
RECURSIVE Split(_, _)
Split(s, sep) ==
    LET i == IndexFrom(s, sep, 1)
    IN IF i = 0 THEN <<s>>
       ELSE <<SubSeq(s, 1, i - 1)>> \o Split(SubSeq(s, i + 1, Len(s)), sep)

\* (a \o b) in s, for tokens a and b that stand next to each other.
ContainsPair(s, a, b) ==
    \E i \in 1..(Len(s) - 1) : s[i] = a /\ s[i + 1] = b

\* is_acceptable_character: ASCII letters and digits, Hangul syllables, and _ - .
AcceptableCharacters == {"a", "b", "d", "s", "0", "_", "-", "."}
is_acceptable_character(c) == c \in AcceptableCharacters

\* The longest nickname sanitize_nickname returns.
NickLen == 16

\* A sanitize_nickname that keeps every character.
KeepNickname(nickname) == nickname

\* sanitize_nickname: the acceptable characters, cut to 16.
sanitize_nickname(nickname) ==
    LET kept == SelectSeq(nickname, is_acceptable_character)
    IN SubSeq(kept, 1, IF Len(kept) < NickLen THEN Len(kept) ELSE NickLen)

\* f'{sender}＠d!integration@integrations/{integration.type}/{integration.id}'
IntegrationTag(sender, marker, type, id) ==
    sender \o <<FWAT, marker, "!", "integration@integrations", "/", type, "/",
                ToString(id)>>

\* f'{chat.sender}+!app@apps/{app.slug}'
AppTag(sender, slug) == sender \o <<"+", "!", "app@apps", "/", slug>>

\* --------------------------------------------------------- the Registry

\* A lookup that sees only the authorized integrations of the target.
ByTargetIfAuthorized(t, g) ==
    {i \in integrations : i.type = t /\ i.target = g /\ i.is_authorized}

\* A lookup that takes any integration of the type, whatever its target.
ByType(t, g) == {i \in integrations : i.type = t}

\* session.query(ChannelIntegration).filter(type == t, target == g)
ByTarget(t, g) == {i \in integrations : i.type = t /\ i.target = g}

\* session.query(ChannelIntegration).filter(type == t, target == g, is_authorized == True)
AuthorizedByTarget(t, g) == {i \in ByTarget(t, g) : i.is_authorized}

\* session.query(ChannelIntegration).filter(type == t, channel == c, is_authorized == True).all()
AuthorizedByChannel(t, c) ==
    {i \in integrations : i.type = t /\ i.channel = c /\ i.is_authorized}

\* session.get(ChannelIntegration, id): the rows with that primary key (none or one)
ById(id) == {i \in integrations : i.id = id}

\* ChannelIntegration(channel, type, target, extra, is_authorized=False); session.add; commit
NewIntegration(t, c, g, x) ==
    [id |-> nextId, channel |-> c, type |-> t, target |-> g, extra |-> x,
     is_authorized |-> FALSE]

\* The tasks in flight, and whether one more may start.
Tasks == BagToSet(tasks)
CanSpawn == BagCardinality(tasks) < MaxTasks
Spawn(t) == tasks' = tasks (+) SetToBag({t})
Finish(t) == tasks' = tasks (-) SetToBag({t})
Become(t, u) == tasks' = (tasks (-) SetToBag({t})) (+) SetToBag({u})

Publish(ev) == toIka' = Append(toIka, ev)

\* The answer a command or request gets (the platform shows it where the
\* command was given).
RespText(to, text) == text

\* ------------------------------------------------------ Discord: attach

\* add_integration up to its first await: the channel-type check, the
\* existing-integration check, the Channel lookup, and the call of
\* create_webhook, during which the task is suspended.
DiscordAttach(ctx, isText, name) ==
    /\ UNCHANGED <<integrations, nextId, snippets, toIka, busVars, wsVars>>
    /\ IF ~isText
          THEN /\ resp' = RespText(ctx, "channel_only")
               /\ UNCHANGED <<webhooks, nextWebhook, tasks>>
       ELSE IF ByTarget("discord", ctx) # {}
          THEN /\ resp' = RespText(ctx, "already_bound")
               /\ UNCHANGED <<webhooks, nextWebhook, tasks>>
       ELSE IF name \notin ChannelNames
          THEN /\ resp' = RespText(ctx, "unknown_irc_channel")
               /\ UNCHANGED <<webhooks, nextWebhook, tasks>>
       ELSE /\ CanSpawn
            /\ nextWebhook <= MaxId
            /\ Spawn([pc |-> "d_attach_webhook", ctx |-> ctx, name |-> name,
                      channel |-> ChannelIdOf(name),
                      webhook |-> WebhookBase + nextWebhook])
            /\ webhooks' = webhooks \cup
                   {[id |-> WebhookBase + nextWebhook, channel |-> ctx]}
            /\ nextWebhook' = nextWebhook + 1
            /\ UNCHANGED resp

\* add_integration resumed with the webhook: the record is added and committed
\* and the with-block closes the session.  The commit expired the instance
\* (sessionmaker's expire_on_commit is left at its default) and the closed
\* session detached it, so reading integration.id for the add_integration
\* event raises DetachedInstanceError: nothing is published and the command
\* gets no answer.
DiscordAttachCommit(t) ==
    /\ t.pc = "d_attach_webhook"
    /\ nextId <= MaxId
    /\ integrations' = integrations \cup
           {NewIntegration("discord", t.channel, t.ctx, t.webhook)}
    /\ nextId' = nextId + 1
    /\ resp' = RespText(t.ctx, "raised")
    /\ Finish(t)
    /\ UNCHANGED <<webhooks, nextWebhook, snippets, toIka, busVars, wsVars>>

\* ------------------------------------------------------ Discord: detach

\* remove_integration up to its first await: the lookup by target (first() of
\* an unordered query: any matching row) and the call of ctx.channel.webhooks().
DiscordDetach(ctx) ==
    /\ UNCHANGED <<regVars, toIka, busVars, wsVars>>
    /\ IF ByTarget("discord", ctx) = {}
          THEN /\ resp' = RespText(ctx, "not_bound")
               /\ UNCHANGED tasks
          ELSE /\ CanSpawn
               /\ \E i \in ByTarget("discord", ctx) :
                      Spawn([pc |-> "d_detach_webhooks", ctx |-> ctx, id |-> i.id,
                             extra |-> i.extra, name |-> ChannelNameOf(i.channel),
                             found |-> \E w \in webhooks :
                                           w.channel = ctx /\ w.id = i.extra])
               /\ UNCHANGED resp

\* The record is deleted and committed, remove_integration is published and
\* the command is answered (lines 161-173).
DetachRecord(t) ==
    /\ Len(toIka) < MaxBus
    /\ integrations' = {i \in integrations : i.id # t.id}
    /\ Publish([ev |-> [event |-> "remove_integration",
                        channel |-> t.name,
                        integrationId |-> t.id],
                src |-> [kind |-> "discord", id |-> t.id]])
    /\ resp' = RespText(t.ctx, "detached")
    /\ Finish(t)

\* remove_integration resumed with the webhook list: the integration's webhook,
\* when it is in the list, is deleted (an await); when it is not, the handler
\* goes on to the record without suspending.
DiscordDetachWebhooks(t) ==
    /\ t.pc = "d_detach_webhooks"
    /\ UNCHANGED <<nextId, nextWebhook, snippets, busVars, wsVars>>
    /\ IF t.found
          THEN /\ webhooks' = {w \in webhooks : w.id # t.extra}
               /\ Become(t, [t EXCEPT !.pc = "d_detach_delete"])
               /\ UNCHANGED <<integrations, toIka, resp>>
          ELSE /\ DetachRecord(t)
               /\ UNCHANGED webhooks

\* remove_integration resumed after webhook.delete().
DiscordDetachCommit(t) ==
    /\ t.pc = "d_detach_delete"
    /\ DetachRecord(t)
    /\ UNCHANGED <<webhooks, nextId, nextWebhook, snippets, busVars, wsVars>>

\* ------------------------------------------------------ Slack: requests

\* The signing window of SignatureVerifier.is_valid, in seconds.
ReplayWindow == 300

\* The signing part of the requests tried (age is |now - X-Slack-Request-
\* Timestamp| in seconds): a fresh and a just-in-window
\* timestamp with the right signature, and the ways to fail: a wrong
\* signature, a timestamp just out of the window or 10 minutes old under the
\* right signature, and no headers.
Signings ==
    {[hasHeaders |-> TRUE, age |-> 0, sigOk |-> TRUE],
     [hasHeaders |-> TRUE, age |-> 300, sigOk |-> TRUE],
     [hasHeaders |-> TRUE, age |-> 0, sigOk |-> FALSE],
     [hasHeaders |-> TRUE, age |-> 301, sigOk |-> TRUE],
     [hasHeaders |-> TRUE, age |-> 600, sigOk |-> TRUE],
     [hasHeaders |-> FALSE, age |-> 0, sigOk |-> TRUE]}

\* signature_verifier.is_valid(body, timestamp, signature): both headers are
\* there, the timestamp is within 5 minutes of now, and the signature is the
\* HMAC of the timestamp and the body.
is_valid(hasHeaders, age, sigOk) ==
    hasHeaders /\ ~(age > ReplayWindow) /\ sigOk

\* A verify_request that lets every request through.
AcceptAll(req) == TRUE

\* verify_request
verify_request(req) == is_valid(req.hasHeaders, req.age, req.sigOk)

\* str.strip() of a command text: the spaces at both ends go.
RECURSIVE LStrip(_)
LStrip(s) == IF s # <<>> /\ Head(s) = " " THEN LStrip(Tail(s)) ELSE s
RECURSIVE RStrip(_)
RStrip(s) ==
    IF s # <<>> /\ s[Len(s)] = " " THEN RStrip(SubSeq(s, 1, Len(s) - 1)) ELSE s
Strip(s) == LStrip(RStrip(s))

\* A part of a split text as a name: the token it consists of.
NameOf(part) == IF Len(part) = 1 THEN part[1] ELSE "?"

\* The texts of the /ozinger command that are tried.
CommandTexts ==
    {<<"attach", " ", "general">>, <<"attach", " ", "nochan">>, <<" ", "attach", " ", "general">>,
     <<"attach">>, <<"detach">>, <<"help">>}

\* channel_id of a command: a channel, or a direct message (id not starting
\* with C or G).
CommandChannels == SlackChannels \cup {"DM1"}
StartsWithCOrG(c) == c \in SlackChannels

SlackTeam == "T1"

\* params = command['text'].strip().split(' '); subcommand = params[0]
CommandParams(text) == Split(Strip(text), " ")
Subcommand(text) == NameOf(CommandParams(text)[1])

\* receive_command: the signature gate, the channel-id gate, and the creation
\* of the handle_command task.
SlackReceiveCommand(sig, channel, text) ==
    /\ UNCHANGED <<regVars, toIka, busVars, wsVars>>
    /\ IF ~verify_request(sig)
          THEN /\ resp' = RespText("http", "401")
               /\ UNCHANGED tasks
       ELSE IF ~StartsWithCOrG(channel)
          THEN /\ resp' = RespText("http", "channel_only")
               /\ UNCHANGED tasks
       ELSE /\ CanSpawn
            /\ Spawn([pc |-> "s_command", channel |-> channel,
                      team |-> SlackTeam, text |-> text])
            /\ resp' = RespText("http", "in_channel")

\* handle_command: resumed with the answer of conversations_members
\* ("member", "not_member" or "api_error"), it runs to its end; the only
\* awaits left are the publish and the answer through the response url.
SlackHandleCommand(t, members) ==
    /\ t.pc = "s_command"
    /\ Finish(t)
    /\ UNCHANGED <<webhooks, nextWebhook, snippets, busVars, wsVars>>
    /\ LET params == CommandParams(t.text)
           subcommand == Subcommand(t.text)
           name == NameOf(Split(t.text, " ")[2])
       IN IF members # "member"
             THEN /\ resp' = RespText(t.channel, "install_first")
                  /\ UNCHANGED <<integrations, nextId, toIka>>
          ELSE IF subcommand = "attach"
             THEN IF Len(params) # 2
                     THEN /\ resp' = RespText(t.channel, "need_channel_name")
                          /\ UNCHANGED <<integrations, nextId, toIka>>
                  ELSE IF ByTarget("slack", t.channel) # {}
                     THEN /\ resp' = RespText(t.channel, "already_bound")
                          /\ UNCHANGED <<integrations, nextId, toIka>>
                  ELSE IF name \notin ChannelNames
                     THEN /\ resp' = RespText(t.channel, "unknown_irc_channel")
                          /\ UNCHANGED <<integrations, nextId, toIka>>
                  ELSE /\ nextId <= MaxId
                       /\ Len(toIka) < MaxBus
                       /\ integrations' = integrations \cup
                              {NewIntegration("slack", ChannelIdOf(name),
                                              t.channel, t.team)}
                       /\ nextId' = nextId + 1
                       /\ Publish([ev |-> [event |-> "add_integration",
                                           channel |-> name,
                                           integrationId |-> nextId],
                                   src |-> [kind |-> "slack", id |-> nextId]])
                       /\ resp' = RespText(t.channel, "attach_requested")
          ELSE IF subcommand = "detach"
             THEN IF ByTarget("slack", t.channel) = {}
                     THEN /\ resp' = RespText(t.channel, "not_bound")
                          /\ UNCHANGED <<integrations, nextId, toIka>>
                     ELSE /\ Len(toIka) < MaxBus
                          /\ \E i \in ByTarget("slack", t.channel) :
                               /\ integrations' = integrations \ {i}
                               /\ Publish([ev |-> [event |-> "remove_integration",
                                                   irc_channel |-> ChannelNameOf(i.channel),
                                                   integrationId |-> i.id],
                                           src |-> [kind |-> "slack", id |-> i.id]])
                          /\ resp' = RespText(t.channel, "detached")
                          /\ UNCHANGED nextId
          ELSE /\ resp' = RespText(t.channel, "usage")
               /\ UNCHANGED <<integrations, nextId, toIka>>

\* ------------------------------------------------------ Discord: inbound

\* The lines of a text that are published: `if not line: continue`.
NonEmpty(lines) == SelectSeq(lines, LAMBDA l : l # "")

\* More lines than this are stored as a snippet.
LineLimit == 5

ChatEvent(sender, recipient, message) ==
    [event |-> "chat_message", sender |-> sender, recipient |-> recipient,
     message |-> message]

\* on_message up to its first await.  m.lines is the text after the mention
\* and code-block rewriting, split in lines (attachment urls included).  The
\* first line is published in the call that suspends the handler; the lines
\* left are the task's.  When the text has more than 5 lines the Snippet is
\* committed: the commit expires the integration and the closed session
\* detaches it, so building the event raises and nothing is published.
on_message(m) ==
    /\ UNCHANGED <<integrations, nextId, webhooks, nextWebhook, busVars, wsVars,
                   resp>>
    /\ IF \/ m.author = BotUserId
          \/ m.type # "default"
          \/ AuthorizedByTarget("discord", m.channel) = {}
          THEN UNCHANGED <<snippets, tasks, toIka>>
          ELSE \E i \in AuthorizedByTarget("discord", m.channel) :
                 IF m.author = i.extra
                    THEN UNCHANGED <<snippets, tasks, toIka>>
                 ELSE IF Len(m.lines) > LineLimit
                    THEN /\ snippets < MaxSnippets
                         /\ snippets' = snippets + 1
                         /\ UNCHANGED <<tasks, toIka>>
                 ELSE IF NonEmpty(m.lines) = <<>>
                    THEN UNCHANGED <<snippets, tasks, toIka>>
                 ELSE LET lines == NonEmpty(m.lines)
                          tag == IntegrationTag(sanitize_nickname(m.display_name),
                                                "d", i.type, i.id)
                          src == [kind |-> "discord", id |-> i.id]
                      IN /\ Len(toIka) < MaxBus
                         /\ Publish([ev |-> ChatEvent(tag, ChannelNameOf(i.channel),
                                                     Head(lines)),
                                     src |-> src])
                         /\ IF Tail(lines) = <<>>
                               THEN UNCHANGED tasks
                               ELSE /\ CanSpawn
                                    /\ Spawn([pc |-> "publish", sender |-> tag,
                                              recipient |-> ChannelNameOf(i.channel),
                                              lines |-> Tail(lines), src |-> src])
                         /\ UNCHANGED snippets

\* The publishing loop of on_message and of handle_events, resumed after a
\* publish: the next line is published.
PublishLine(t) ==
    /\ t.pc = "publish"
    /\ Len(toIka) < MaxBus
    /\ Publish([ev |-> ChatEvent(t.sender, t.recipient, Head(t.lines)),
                src |-> t.src])
    /\ IF Tail(t.lines) = <<>>
          THEN Finish(t)
          ELSE Become(t, [t EXCEPT !.lines = Tail(t.lines)])
    /\ UNCHANGED <<regVars, busVars, wsVars, resp>>

\* ------------------------------------------------------ Slack: inbound

\* receive_events: the signature gate, then by the outer type: the challenge
\* is echoed, an event_callback starts a handle_events task, anything else is
\* answered with nothing.
receive_events(sig, outer) ==
    /\ UNCHANGED <<regVars, toIka, busVars, wsVars>>
    /\ IF ~verify_request(sig)
          THEN /\ resp' = RespText("http", "401")
               /\ UNCHANGED tasks
       ELSE IF outer.type = "url_verification"
          THEN /\ resp' = RespText("http", "challenge")
               /\ UNCHANGED tasks
       ELSE IF outer.type = "event_callback"
          THEN /\ CanSpawn
               /\ Spawn([pc |-> "s_event", event |-> outer.event])
               /\ resp' = RespText("http", "ok")
       ELSE /\ resp' = RespText("http", "null")
            /\ UNCHANGED tasks

\* The url a shared file is proxied under (one line per file).
FileLines(e) ==
    IF e.subtype = "file_share" THEN [n \in 1..e.files |-> "file_url"] ELSE <<>>

\* handle_events up to the users_info call that fetches the sender's display
\* name: the subtype and slash filters, the lookup of the authorized
\* integration, the rewriting of the text (e.lines is its result, the file
\* lines are appended here) and the snippet.  Everything stays inside the
\* with-block, so the integration is refreshed after the snippet's commit.
handle_events(t) ==
    /\ t.pc = "s_event"
    /\ UNCHANGED <<integrations, nextId, webhooks, nextWebhook, toIka, busVars,
                   wsVars, resp>>
    /\ LET e == t.event
       IN IF \/ e.type # "message"
             \/ e.subtype \notin {"none", "file_share"}
             \/ e.slash
             \/ AuthorizedByTarget("slack", e.channel) = {}
             THEN /\ Finish(t)
                  /\ UNCHANGED snippets
             ELSE \E i \in AuthorizedByTarget("slack", e.channel) :
                    LET text == e.lines \o FileLines(e)
                        long == Len(text) > LineLimit
                        lines == IF long THEN <<"snippet_url">> ELSE NonEmpty(text)
                    IN /\ long => snippets < MaxSnippets
                       /\ snippets' = IF long THEN snippets + 1 ELSE snippets
                       /\ IF lines = <<>>
                             THEN Finish(t)
                             ELSE Become(t,
                                    [pc |-> "publish",
                                     sender |-> IntegrationTag(
                                         sanitize_nickname(e.display_name),
                                         "s", i.type, i.id),
                                     recipient |-> ChannelNameOf(i.channel),
                                     lines |-> lines,
                                     src |-> [kind |-> "slack", id |-> i.id]])

\* ------------------------------------------------------ the gateway

ConnIds == 1..MaxConns
NoState == [app |-> "unset", channels |-> {}]

\* Rows of the Applications table, with the names of their channels.
Applications ==
    {[id |-> "1", secret_key |-> "k1", slug |-> "a1", channels |-> {"general"}],
     [id |-> "2", secret_key |-> "k2", slug |-> "a2",
      channels |-> {"General", "random"}]}

AppBySlug(slug) == CHOOSE a \in Applications : a.slug = slug

\* str.lower() on the channel names that occur.
Lower(name) ==
    IF name \in {"GENERAL", "General"} THEN "general" ELSE name

\* get_app: the token is split at "@" into exactly two parts (anything else
\* raises ValueError), and the application with that id and key is looked up.
\* The result is "raise", "none" or the application's slug.
get_app(token) ==
    LET parts == Split(token, "@")
    IN IF Len(parts) # 2 THEN "raise"
       ELSE LET found == {a \in Applications :
                            <<a.id>> = parts[1] /\ <<a.secret_key>> = parts[2]}
            IN IF found = {} THEN "none"
               ELSE (CHOOSE a \in found : TRUE).slug

\* An authorization that compares the names as they are written.
ExactTargetAuthorized(slug, target) == target \in AppBySlug(slug).channels

\* send_message's authorization: some channel of the application equals the
\* target, both lower-cased.
TargetAuthorized(slug, target) ==
    \E name \in AppBySlug(slug).channels : Lower(name) = Lower(target)

\* The subscriber takes an event off from-ika and starts one task per listener.
Dispatch(ev, src) ==
    /\ subscriber = "running"
    /\ inbox.pending = <<>>
    /\ inbox' = [ev |-> ev, src |-> src, pending |-> redis_listeners]
    /\ posts' = {}
    /\ frames' = {}
    /\ raised' = {}
    /\ UNCHANGED subscriber

\* send_message: the event is published on to-ika and on from-ika, where the
\* relay's own subscriber receives it.
send_message(slug, chat) ==
    IF ~TargetAuthorized(slug, chat.target)
       THEN /\ resp' = "unauthorized_channel"
            /\ UNCHANGED <<toIka, busVars>>
       ELSE LET ev == ChatEvent(AppTag(chat.sender, slug), chat.target,
                                chat.message)
                src == [kind |-> "app", id |-> slug]
            IN /\ Len(toIka) < MaxBus
               /\ Publish([ev |-> ev, src |-> src])
               /\ Dispatch(ev, src)
               /\ resp' = "sent"

\* post_chat: the stateless request.
post_chat(token, chat) ==
    /\ UNCHANGED <<regVars, tasks, wsVars>>
    /\ LET app == get_app(token)
       IN IF app = "raise"
             THEN /\ resp' = "raised"
                  /\ UNCHANGED <<toIka, busVars>>
          ELSE IF app = "none"
             THEN /\ resp' = "invalid_token"
                  /\ UNCHANGED <<toIka, busVars>>
          ELSE send_message(app, chat)

\* websocket_chat: a connection is accepted and appended to the list.
WsConnect(c) ==
    /\ \A n \in 1..Len(websockets) : websockets[n] # c
    /\ websockets' = Append(websockets, c)
    /\ wsState' = [wsState EXCEPT ![c] = NoState]
    /\ UNCHANGED <<regVars, tasks, toIka, busVars, resp>>

Connected(c) == \E n \in 1..Len(websockets) : websockets[n] = c

\* websockets.remove(ws), in the finally clause.
Remove(c) ==
    /\ websockets' = SelectSeq(websockets, LAMBDA x : x # c)
    /\ wsState' = [wsState EXCEPT ![c] = NoState]

\* The authenticate action: ws.state.app is set to what get_app returns, None
\* included; a token get_app cannot split ends the connection.
WsAuthenticate(c, token) ==
    /\ Connected(c)
    /\ UNCHANGED <<regVars, tasks, toIka, busVars>>
    /\ LET app == get_app(token)
       IN IF app = "raise"
             THEN /\ Remove(c)
                  /\ resp' = "closed"
          ELSE IF app = "none"
             THEN /\ wsState' = [wsState EXCEPT ![c].app = "none"]
                  /\ resp' = "invalid_token"
                  /\ UNCHANGED websockets
          ELSE /\ wsState' = [wsState EXCEPT ![c] =
                      [app |-> app,
                       channels |-> {Lower(n) : n \in AppBySlug(app).channels}]]
               /\ resp' = "authenticated"
               /\ UNCHANGED websockets

\* The message action: without ws.state.app it is answered unauthorized; with
\* ws.state.app None send_message raises and the connection ends.
WsMessage(c, chat) ==
    /\ Connected(c)
    /\ UNCHANGED <<regVars, tasks>>
    /\ IF wsState[c].app = "unset"
          THEN /\ resp' = "unauthorized"
               /\ UNCHANGED <<toIka, busVars, wsVars>>
       ELSE IF wsState[c].app = "none"
          THEN /\ Remove(c)
               /\ resp' = "closed"
               /\ UNCHANGED <<toIka, busVars>>
       ELSE /\ send_message(wsState[c].app, chat)
            /\ UNCHANGED wsVars

\* The client goes away: WebSocketDisconnect.
WsDisconnect(c) ==
    /\ Connected(c)
    /\ Remove(c)
    /\ UNCHANGED <<regVars, tasks, toIka, busVars, resp>>

\* ------------------------------------------------------ the listeners

\* The end of one listener's task ends the handling of the event.
DropRest == inbox' = [inbox EXCEPT !.pending = <<>>]

\* One listener's task for the event has run: the others' tasks remain.
Handled == inbox' = [inbox EXCEPT !.pending = Tail(inbox.pending)]
Turn(listener) == inbox.pending # <<>> /\ Head(inbox.pending) = listener

\* The connections a broadcast reaches: the list is walked in order; a
\* connection without ws.state.app is skipped, one whose app is None raises
\* and ends the walk.
RECURSIVE Broadcast(_, _, _)
Broadcast(conns, origin, recipient) ==
    IF conns = <<>> THEN [to |-> {}, raised |-> FALSE]
    ELSE LET c == Head(conns)
             st == wsState[c]
         IN IF st.app = "unset" THEN Broadcast(Tail(conns), origin, recipient)
            ELSE IF st.app = "none" THEN [to |-> {}, raised |-> TRUE]
            ELSE IF <<st.app>> = origin
                    THEN Broadcast(Tail(conns), origin, recipient)
            ELSE LET rest == Broadcast(Tail(conns), origin, recipient)
                 IN IF Lower(recipient) \in st.channels
                       THEN [to |-> {c} \cup rest.to, raised |-> rest.raised]
                       ELSE rest

\* origin of a chat_message as the gateway reads it from the sender.
GatewayOrigin(sender) ==
    IF ContainsPair(sender, "app@apps", "/")
       THEN Split(sender, "/")[2]
       ELSE <<"*">>

\* sender of a chat_message as the gateway shows it.
GatewaySender(sender) ==
    IF ContainsPair(sender, "app@apps", "/")
       THEN Split(sender, "+")[1]
       ELSE Split(sender, "!")[1]

\* route.redis_listener
GatewayListener ==
    /\ Turn("gateway")
    /\ Handled
    /\ UNCHANGED <<regVars, tasks, toIka, posts, subscriber, wsVars, resp>>
    /\ IF inbox.ev.event = "chat_message"
          THEN LET origin == GatewayOrigin(inbox.ev.sender)
                   b == Broadcast(websockets, origin, inbox.ev.recipient)
               IN /\ frames' = {[conn |-> c, code |-> "message",
                                 origin |-> origin,
                                 sender |-> GatewaySender(inbox.ev.sender),
                                 target |-> inbox.ev.recipient,
                                 message |-> inbox.ev.message] : c \in b.to}
                  /\ raised' = IF b.raised THEN raised \cup {"gateway"} ELSE raised
          ELSE UNCHANGED <<frames, raised>>

\* The test both adapters make on a chat_message's sender: the part before the
\* first "!" splits at the fullwidth at into two parts, the second being the
\* adapter's marker.
OwnMarker(sender, marker) ==
    LET parts == Split(Split(sender, "!")[1], FWAT)
    IN Len(parts) = 2 /\ parts[2] = <<marker>>

\* The orders in which .all() may return rows.
Orders(S) ==
    {o \in [1..Cardinality(S) -> S] : \A a, b \in DOMAIN o : a # b => o[a] # o[b]}

\* The Discord fan-out over the integrations in order o: get_channel returns
\* None for a channel the bot cannot see, and using it raises; the message is
\* sent through the integration's webhook when the channel still has it.  The
\* texts tried hold no member's display name, so the mention rewriting leaves
\* them as they are.
RECURSIVE DiscordFanout(_, _, _)
DiscordFanout(o, gone, text) ==
    IF o = <<>> THEN [posts |-> {}, raised |-> FALSE]
    ELSE LET i == Head(o)
         IN IF i.target \in gone THEN [posts |-> {}, raised |-> TRUE]
            ELSE LET rest == DiscordFanout(Tail(o), gone, text)
                     here == IF \E w \in webhooks :
                                    w.channel = i.target /\ w.id = i.extra
                                THEN {[platform |-> "discord", kind |-> "chat",
                                       target |-> i.target, id |-> i.id,
                                       text |-> text]}
                                ELSE {}
                 IN [posts |-> here \cup rest.posts, raised |-> rest.raised]

\* discord.redis_listener.  gone: the Discord channels get_channel does not find.
DiscordListener(gone) ==
    /\ Turn("discord")
    /\ Handled
    /\ UNCHANGED <<nextId, webhooks, nextWebhook, snippets, tasks, toIka, frames,
                   subscriber, wsVars, resp>>
    /\ LET ev == inbox.ev
       IN IF ev.event = "chat_message"
             THEN IF \/ OwnMarker(ev.sender, "d")
                     \/ ev.recipient \notin ChannelNames
                     THEN UNCHANGED <<integrations, posts, raised>>
                     ELSE \E o \in Orders(AuthorizedByChannel(
                                       "discord", ChannelIdOf(ev.recipient))) :
                            LET f == DiscordFanout(o, gone, ev.message)
                            IN /\ posts' = posts \cup f.posts
                               /\ raised' = IF f.raised
                                               THEN raised \cup {"discord"}
                                               ELSE raised
                               /\ UNCHANGED integrations
          ELSE IF ev.event \in {"add_integration", "remove_integration"}
             THEN IF ById(ev.integrationId) = {}
                     THEN /\ raised' = raised \cup {"discord"}
                          /\ UNCHANGED <<integrations, posts>>
                     ELSE LET i == CHOOSE i \in ById(ev.integrationId) : TRUE
                          IN IF i.type # "discord"
                                THEN UNCHANGED <<integrations, posts, raised>>
                                ELSE /\ integrations' =
                                          IF ev.event = "remove_integration"
                                             THEN integrations \ {i}
                                             ELSE integrations
                                     /\ IF i.target \in gone
                                           THEN /\ raised' = raised \cup {"discord"}
                                                /\ UNCHANGED posts
                                           ELSE /\ posts' = posts \cup
                                                     {[platform |-> "discord",
                                                       kind |-> ev.event,
                                                       target |-> i.target,
                                                       id |-> i.id,
                                                       text |-> ChannelNameOf(i.channel)]}
                                                /\ UNCHANGED raised
          ELSE UNCHANGED <<integrations, posts, raised>>

\* The Slack fan-out over the integrations in order o: chat_postMessage
\* raises SlackApiError for a channel in failing, which ends the listener.
\* The texts tried hold none of &, <, > and no member's display name, so the
\* escaping and the mention rewriting leave them as they are.
RECURSIVE SlackFanout(_, _, _)
SlackFanout(o, failing, text) ==
    IF o = <<>> THEN [posts |-> {}, raised |-> FALSE]
    ELSE LET i == Head(o)
         IN IF i.target \in failing THEN [posts |-> {}, raised |-> TRUE]
            ELSE LET rest == SlackFanout(Tail(o), failing, text)
                 IN [posts |-> {[platform |-> "slack", kind |-> "chat",
                                 target |-> i.target, id |-> i.id,
                                 text |-> text]} \cup rest.posts,
                     raised |-> rest.raised]

\* slack.redis_listener.  failing: the Slack channels whose post call raises.
SlackListener(failing) ==
    /\ Turn("slack")
    /\ Handled
    /\ UNCHANGED <<nextId, webhooks, nextWebhook, snippets, tasks, toIka, frames,
                   subscriber, wsVars, resp>>
    /\ LET ev == inbox.ev
       IN IF ev.event = "chat_message"
             THEN IF \/ OwnMarker(ev.sender, "s")
                     \/ ev.recipient \notin ChannelNames
                     THEN UNCHANGED <<integrations, posts, raised>>
                     ELSE \E o \in Orders(AuthorizedByChannel(
                                       "slack", ChannelIdOf(ev.recipient))) :
                            LET f == SlackFanout(o, failing, ev.message)
                            IN /\ posts' = posts \cup f.posts
                               /\ raised' = IF f.raised
                                               THEN raised \cup {"slack"}
                                               ELSE raised
                               /\ UNCHANGED integrations
          ELSE IF ev.event \in {"add_integration", "remove_integration"}
             THEN IF ById(ev.integrationId) = {}
                     THEN /\ raised' = raised \cup {"slack"}
                          /\ UNCHANGED <<integrations, posts>>
                     ELSE LET i == CHOOSE i \in ById(ev.integrationId) : TRUE
                          IN IF i.type # "slack"
                                THEN UNCHANGED <<integrations, posts, raised>>
                                ELSE /\ integrations' =
                                          IF ev.event = "remove_integration"
                                             THEN integrations \ {i}
                                             ELSE integrations
                                     /\ IF i.target \in failing
                                           THEN /\ raised' = raised \cup {"slack"}
                                                /\ UNCHANGED posts
                                           ELSE /\ posts' = posts \cup
                                                     {[platform |-> "slack",
                                                       kind |-> ev.event,
                                                       target |-> i.target,
                                                       id |-> i.id,
                                                       text |-> ChannelNameOf(i.channel)]}
                                                /\ UNCHANGED raised
          ELSE UNCHANGED <<integrations, posts, raised>>

\* ------------------------------------------------------ the IRC side

\* The IRC network process takes the oldest event off to-ika.
IkaConsume ==
    /\ toIka # <<>>
    /\ toIka' = Tail(toIka)
    /\ UNCHANGED <<regVars, tasks, busVars, wsVars, resp>>

\* The IRC network takes the oldest event off to-ika, a chat_message, and
\* sends it on from-ika to whoever listens to the channel.
IkaForward ==
    /\ toIka # <<>>
    /\ Head(toIka).ev.event = "chat_message"
    /\ toIka' = Tail(toIka)
    /\ Dispatch(Head(toIka).ev, Head(toIka).src)
    /\ UNCHANGED <<regVars, tasks, wsVars, resp>>

\* An event that originates on the IRC side arrives on from-ika: a
\* chat_message of an IRC user, or the add_integration / remove_integration
\* of an integration id.
IkaSend(ev) ==
    /\ Dispatch(ev, [kind |-> "irc", id |-> 0])
    /\ UNCHANGED <<regVars, tasks, toIka, wsVars, resp>>

\* A payload that is not JSON arrives on from-ika: json.loads raises inside
\* the loop, the only except clause names asyncio.TimeoutError, and so the
\* exception leaves redis_subscribe and ends its task.  No listener task is
\* created; the tasks already created go on.
IkaSendMalformed ==
    /\ subscriber = "running"
    /\ subscriber' = "dead"
    /\ UNCHANGED <<regVars, tasks, toIka, inbox, posts, frames, raised, wsVars,
                   resp>>

\* The task of a listener handling a chat_message waits for ever on its first
\* platform call (the webhook list, the member list, the frame sent): it never
\* posts and never ends, and being a task of its own it holds back nothing.
ListenerStalls(listener) ==
    /\ Turn(listener)
    /\ inbox.ev.event = "chat_message"
    /\ Handled
    /\ UNCHANGED <<regVars, tasks, toIka, posts, frames, raised, subscriber,
                   wsVars, resp>>

\* The IRC side approves a pending integration: it sets is_authorized in the
\* shared ChannelIntegrations table.
IkaAuthorize(id) ==
    /\ \E i \in ById(id) : ~i.is_authorized
    /\ integrations' =
           {IF i.id = id THEN [i EXCEPT !.is_authorized = TRUE] ELSE i :
                i \in integrations}
    /\ UNCHANGED <<nextId, webhooks, nextWebhook, snippets, tasks, toIka,
                   busVars, wsVars, resp>>

\* ------------------------------------------------------ specification

Init ==
    /\ integrations = {}
    /\ nextId = 1
    /\ webhooks = {}
    /\ nextWebhook = 1
    /\ snippets = 0
    /\ tasks = EmptyBag
    /\ toIka = <<>>
    /\ inbox = [ev |-> NoEvent, src |-> NoSrc, pending |-> <<>>]
    /\ posts = {}
    /\ frames = {}
    /\ raised = {}
    /\ subscriber = "running"
    /\ websockets = <<>>
    /\ wsState = [c \in ConnIds |-> NoState]
    /\ resp = NoResp

\* A request Slack signed just now.
ValidSigning == [hasHeaders |-> TRUE, age |-> 0, sigOk |-> TRUE]

Memberships == {"member", "not_member", "api_error"}

\* The attach and detach commands of both platforms, from an empty Registry.
Next ==
    \/ \E ctx \in DiscordChannels, isText \in BOOLEAN, name \in AttachNames :
           DiscordAttach(ctx, isText, name)
    \/ \E t \in Tasks : DiscordAttachCommit(t)
    \/ \E ctx \in DiscordChannels : DiscordDetach(ctx)
    \/ \E t \in Tasks : DiscordDetachWebhooks(t)
    \/ \E t \in Tasks : DiscordDetachCommit(t)
    \/ \E c \in CommandChannels, text \in CommandTexts :
           SlackReceiveCommand(ValidSigning, c, text)
    \/ \E t \in Tasks, m \in Memberships : SlackHandleCommand(t, m)
    \/ IkaConsume
    \/ \E id \in 1..MaxId : IkaAuthorize(id)

Spec == Init /\ [][Next]_vars

\* --------------------------------------------- the Slack HTTP surface

SlackEvent(subtype, slash, lines, files) ==
    [type |-> "message", subtype |-> subtype, slash |-> slash,
     channel |-> "S1", display_name |-> <<"u", FWAT, "d", "!">>,
     lines |-> lines, files |-> files]

\* The bodies of the events requests tried.
SlackOuters ==
    {[type |-> "url_verification", event |-> NoEvent],
     [type |-> "app_rate_limited", event |-> NoEvent],
     [type |-> "event_callback", event |-> [type |-> "reaction_added"]],
     [type |-> "event_callback", event |-> SlackEvent("none", FALSE, <<"hello">>, 0)],
     [type |-> "event_callback", event |-> SlackEvent("bot_message", FALSE, <<"hello">>, 0)],
     [type |-> "event_callback",
      event |-> SlackEvent("file_share", FALSE, <<"1", "2", "3", "4", "5">>, 1)]}

\* The command texts tried on that surface.
SlackTexts == {<<"attach", " ", "general">>, <<"detach">>, <<"help">>}

NextSlack ==
    \/ \E sig \in Signings, outer \in SlackOuters : receive_events(sig, outer)
    \/ \E sig \in Signings, c \in CommandChannels, text \in SlackTexts :
           SlackReceiveCommand(sig, c, text)
    \/ \E t \in Tasks, m \in Memberships : SlackHandleCommand(t, m)
    \/ \E t \in Tasks : handle_events(t)
    \/ \E t \in Tasks : PublishLine(t)
    \/ IkaConsume
    \/ \E id \in 1..MaxId : IkaAuthorize(id)

SpecSlack == Init /\ [][NextSlack]_vars

\* --------------------------------------------- the relay of messages

\* Registry rows that earlier attach commands left: Discord channels C1 and C2
\* and Slack channel S1 on "general", and a second row for C1.
D1 == [id |-> 1, channel |-> 1, type |-> "discord", target |-> "C1",
       extra |-> WebhookBase + 1, is_authorized |-> FALSE]
D2 == [id |-> 2, channel |-> 1, type |-> "discord", target |-> "C2",
       extra |-> WebhookBase + 2, is_authorized |-> FALSE]
D1b == [id |-> 2, channel |-> 1, type |-> "discord", target |-> "C1",
        extra |-> WebhookBase + 2, is_authorized |-> FALSE]
S3 == [id |-> 3, channel |-> 1, type |-> "slack", target |-> "S1",
       extra |-> "T1", is_authorized |-> FALSE]

\* The Registries the relay starts from: one pending integration; one per
\* platform channel; two rows for one Discord channel.
RelayRegistries == {{D1}, {D1, D2, S3}, {D1, D1b}}
RelayIds == 1..3

InitRelay ==
    /\ integrations \in RelayRegistries
    /\ nextId = 4
    /\ webhooks = {[id |-> i.extra, channel |-> i.target] :
                       i \in {j \in integrations : j.type = "discord"}}
    /\ nextWebhook = 3
    /\ snippets = 0
    /\ tasks = EmptyBag
    /\ toIka = <<>>
    /\ inbox = [ev |-> NoEvent, src |-> NoSrc, pending |-> <<>>]
    /\ posts = {}
    /\ frames = {}
    /\ raised = {}
    /\ subscriber = "running"
    /\ websockets = <<>>
    /\ wsState = [c \in ConnIds |-> NoState]
    /\ resp = NoResp

DiscordMessage(channel, author, type, name, lines) ==
    [channel |-> channel, author |-> author, type |-> type,
     display_name |-> name, lines |-> lines]

\* The Discord messages tried: 'hello' of a human in C1 and in C2, and C1
\* messages of the bot, of the integration's webhook, of a non-default type,
\* with two lines around an empty one, and with six lines.
DiscordMessages ==
    {DiscordMessage("C1", HumanUserId, "default", <<"b", FWAT, "s", "!">>, <<"hello">>),
     DiscordMessage("C2", HumanUserId, "default", <<"b">>, <<"hello">>),
     DiscordMessage("C1", BotUserId, "default", <<"b">>, <<"hello">>),
     DiscordMessage("C1", WebhookBase + 1, "default", <<"b">>, <<"hello">>),
     DiscordMessage("C1", HumanUserId, "pins_add", <<"b">>, <<"hello">>),
     DiscordMessage("C1", HumanUserId, "default", <<"b">>, <<"l1", "", "l2">>),
     DiscordMessage("C1", HumanUserId, "default", <<"b">>,
                    <<"1", "2", "3", "4", "5", "6">>)}

\* The Slack events tried in the relay.
RelayOuters ==
    {[type |-> "event_callback", event |-> SlackEvent("none", FALSE, <<"hello">>, 0)]}

\* Tokens: the two applications', a wrong key, and one without "@".
Tokens == {<<"1", "@", "k1">>, <<"2", "@", "k2">>, <<"1", "@", "bad">>, <<"1">>}

Chat(sender, target) == [sender |-> sender, target |-> target, message |-> "hi"]

\* The messages applications send: a plain sender, senders that hold the
\* adapters' marker or a slug, and other targets.
Chats ==
    {Chat(<<"a">>, "general"),
     Chat(<<"a", FWAT, "d", "!">>, "general"),
     Chat(<<"a", "/", "a2", "/">>, "general"),
     Chat(<<"a">>, "random"),
     Chat(<<"a">>, "GENERAL")}

\* The events the IRC side sends: a line of an IRC user, and the
\* confirmation and the removal of integrations.
IkaEvents ==
    {ChatEvent(<<"nick", "!", "user@host">>, "general", "yo")}
    \cup {[event |-> e, channel |-> "general", integrationId |-> id] :
              e \in {"add_integration", "remove_integration"}, id \in {1, 3, 4}}

NextRelay ==
    \/ \E m \in DiscordMessages : on_message(m)
    \/ \E t \in Tasks : PublishLine(t)
    \/ \E outer \in RelayOuters : receive_events(ValidSigning, outer)
    \/ \E t \in Tasks : handle_events(t)
    \/ GatewayListener
    \/ \E gone \in {{}, {"C2"}} : DiscordListener(gone)
    \/ \E failing \in {{}, {"S1"}} : SlackListener(failing)
    \/ IkaForward
    \/ IkaConsume
    \/ \E ev \in IkaEvents : IkaSend(ev)
    \/ IkaSendMalformed
    \/ \E n \in 1..Len(redis_listeners) : ListenerStalls(redis_listeners[n])
    \/ \E id \in RelayIds : IkaAuthorize(id)

SpecRelay == InitRelay /\ [][NextRelay]_vars

\* --------------------------------------------- the gateway

\* The relay with C1 and S1 authorized on "general", and the applications.
InitGateway ==
    /\ integrations = {[D1 EXCEPT !.is_authorized = TRUE],
                       [S3 EXCEPT !.is_authorized = TRUE]}
    /\ nextId = 4
    /\ webhooks = {[id |-> D1.extra, channel |-> D1.target]}
    /\ nextWebhook = 3
    /\ snippets = 0
    /\ tasks = EmptyBag
    /\ toIka = <<>>
    /\ inbox = [ev |-> NoEvent, src |-> NoSrc, pending |-> <<>>]
    /\ posts = {}
    /\ frames = {}
    /\ raised = {}
    /\ subscriber = "running"
    /\ websockets = <<>>
    /\ wsState = [c \in ConnIds |-> NoState]
    /\ resp = NoResp

NextGateway ==
    \/ \E c \in ConnIds : WsConnect(c)
    \/ \E c \in ConnIds, token \in Tokens : WsAuthenticate(c, token)
    \/ \E c \in ConnIds, chat \in Chats : WsMessage(c, chat)
    \/ \E c \in ConnIds : WsDisconnect(c)
    \/ \E token \in Tokens, chat \in Chats : post_chat(token, chat)
    \/ GatewayListener
    \/ DiscordListener({})
    \/ SlackListener({})
    \/ IkaConsume
    \/ \E ev \in {e \in IkaEvents : e.event = "chat_message"} : IkaSend(ev)

SpecGateway == InitGateway /\ [][NextGateway]_vars

\* --------------------------------------------- the broadcast, step by step

\* The walk `for ws in websockets` from list position n on, up to its next
\* await: connections without ws.state.app, of the origin, or without the
\* channel are passed without suspending; the first one that gets the frame
\* is where the walk suspends in send_json; a None application raises.
RECURSIVE Walk(_, _, _)
Walk(n, origin, recipient) ==
    IF n > Len(websockets) THEN [kind |-> "done", at |-> 0]
    ELSE LET st == wsState[websockets[n]]
         IN IF st.app = "unset" THEN Walk(n + 1, origin, recipient)
            ELSE IF st.app = "none" THEN [kind |-> "raised", at |-> n]
            ELSE IF <<st.app>> = origin THEN Walk(n + 1, origin, recipient)
            ELSE IF Lower(recipient) \in st.channels
                    THEN [kind |-> "send", at |-> n]
            ELSE Walk(n + 1, origin, recipient)

\* The frame of event ev for connection c.
MessageFrame(c, ev) ==
    [conn |-> c, code |-> "message", origin |-> GatewayOrigin(ev.sender),
     sender |-> GatewaySender(ev.sender), target |-> ev.recipient,
     message |-> ev.message]

\* One stretch of the walk of task t over the list as it is now: the list
\* iterator holds the position of the next element, whatever was removed
\* from or appended to the list while the task was suspended.
Stretch(t) == Walk(t.next, GatewayOrigin(t.ev.sender), t.ev.recipient)

\* The task after the stretch; t.sent are the connections the walk has sent
\* the frame to.
Walked(t) ==
    LET w == Stretch(t)
    IN IF w.kind = "send"
          THEN [t EXCEPT !.next = w.at + 1, !.sent = @ \cup {websockets[w.at]}]
          ELSE [t EXCEPT !.pc = "ended"]

\* What the stretch sends and raises.
WalkOn(t) ==
    LET w == Stretch(t)
    IN /\ frames' = IF w.kind = "send"
                       THEN frames \cup {MessageFrame(websockets[w.at], t.ev)}
                       ELSE frames
       /\ raised' = IF w.kind = "raised" THEN raised \cup {"gateway"} ELSE raised

\* route.redis_listener on a chat_message, up to its first send_json.
GatewayBroadcast ==
    /\ Turn("gateway")
    /\ inbox.ev.event = "chat_message"
    /\ Handled
    /\ CanSpawn
    /\ LET t == [pc |-> "broadcast", next |-> 1, ev |-> inbox.ev, sent |-> {}]
       IN /\ WalkOn(t)
          /\ IF Walked(t).pc = "ended" THEN UNCHANGED tasks ELSE Spawn(Walked(t))
    /\ UNCHANGED <<regVars, toIka, posts, subscriber, wsVars, resp>>

\* route.redis_listener resumed after a send_json.
BroadcastStep(t) ==
    /\ t.pc = "broadcast"
    /\ WalkOn(t)
    /\ IF Walked(t).pc = "ended" THEN Finish(t) ELSE Become(t, Walked(t))
    /\ UNCHANGED <<regVars, toIka, inbox, posts, subscriber, wsVars, resp>>

\* Two connections are open and authenticated, each for one of the
\* applications; C1 and S1 are authorized on "general".
InitChurn ==
    /\ integrations = {[D1 EXCEPT !.is_authorized = TRUE],
                       [S3 EXCEPT !.is_authorized = TRUE]}
    /\ nextId = 4
    /\ webhooks = {[id |-> D1.extra, channel |-> D1.target]}
    /\ nextWebhook = 3
    /\ snippets = 0
    /\ tasks = EmptyBag
    /\ toIka = <<>>
    /\ inbox = [ev |-> NoEvent, src |-> NoSrc, pending |-> <<>>]
    /\ posts = {}
    /\ frames = {}
    /\ raised = {}
    /\ subscriber = "running"
    /\ websockets \in {<<1, 2>>, <<2, 1>>}
    /\ wsState \in [ConnIds ->
                      {[app |-> a.slug,
                        channels |-> {Lower(n) : n \in a.channels}] :
                           a \in Applications}]
    /\ resp = NoResp

\* Messages of IRC users and of the applications are broadcast while
\* connections close.
NextChurn ==
    \/ \E ev \in {e \in IkaEvents : e.event = "chat_message"} : IkaSend(ev)
    \/ \E a \in Applications :
           post_chat(<<a.id, "@", a.secret_key>>, Chat(<<"a">>, "general"))
    \/ GatewayBroadcast
    \/ \E t \in Tasks : BroadcastStep(t)
    \/ \E c \in ConnIds : WsDisconnect(c)
    \/ DiscordListener({})
    \/ SlackListener({})
    \/ IkaConsume

SpecChurn == InitChurn /\ [][NextChurn]_vars

\* --------------------------------------------- the platforms' echoes

\* Discord reports a message the adapter posted back to on_message: a chat
\* post is authored by the webhook it went through, a notice by the bot
\* account; the author's name is the username the post was given.
DiscordEcho(p) ==
    /\ p.platform = "discord"
    /\ \E author \in IF p.kind = "chat"
                        THEN {i.extra : i \in ById(p.id)}
                        ELSE {BotUserId} :
           on_message(DiscordMessage(p.target, author, "default", <<"nick">>,
                                     <<p.text>>))

\* Slack reports a message the adapter posted back to /events: a post made
\* with a bot token carries the subtype bot_message.
SlackEcho(p) ==
    /\ p.platform = "slack"
    /\ receive_events(ValidSigning,
                      [type |-> "event_callback",
                       event |-> SlackEvent("bot_message", FALSE, <<p.text>>, 0)])

\* Lines of IRC users are relayed to the platforms, which report the posts
\* back to the adapters.
NextEcho ==
    \/ \E ev \in {e \in IkaEvents : e.event = "chat_message"} : IkaSend(ev)
    \/ \E id \in RelayIds : IkaAuthorize(id)
    \/ GatewayListener
    \/ DiscordListener({})
    \/ SlackListener({})
    \/ \E p \in posts : DiscordEcho(p)
    \/ \E p \in posts : SlackEcho(p)
    \/ \E t \in Tasks : handle_events(t)
    \/ IkaForward
    \/ IkaConsume

SpecEcho == InitRelay /\ [][NextEcho]_vars

\* --------------------------------------------- the line limit

\* The texts tried around the limit: five lines, five lines with an empty
\* one among them, and six lines.
LineTexts ==
    {<<"1", "2", "3", "4", "5">>,
     <<"1", "", "3", "4", "5">>,
     <<"1", "2", "3", "4", "5", "6">>}

LineMessages ==
    {DiscordMessage("C1", HumanUserId, "default", <<"b">>, lines) :
         lines \in LineTexts}

LineOuters ==
    {[type |-> "event_callback", event |-> SlackEvent("none", FALSE, lines, 0)] :
         lines \in LineTexts}

\* Messages of several lines from C1 and S1, both authorized on "general".
NextLines ==
    \/ \E m \in LineMessages : on_message(m)
    \/ \E outer \in LineOuters : receive_events(ValidSigning, outer)
    \/ \E t \in Tasks : handle_events(t)
    \/ \E t \in Tasks : PublishLine(t)
    \/ IkaConsume

SpecLines == InitGateway /\ [][NextLines]_vars

\* ------------------------------------------------------ the claims

Ids(regs) == {i.id : i \in regs}

\* The records a step adds to the Registry.
Added == {r \in integrations' : r.id \notin Ids(integrations)}

\* The Registry holds an integration of type t for platform target g.
Bound(t, g) == \E i \in integrations : i.type = t /\ i.target = g

\* A listener's step on a chat_message for a known IRC channel.
OnChat == inbox.ev.event = "chat_message" /\ inbox.ev.recipient \in ChannelNames

\* The integration that published the event in the inbox, if one did.
IsOrigin(i) == inbox.src.kind = i.type /\ inbox.src.id = i.id

\* C1: a chat_message that the Discord adapter published from one of its
\* integrations makes the Discord listener post nothing to any Discord
\* channel when it comes back on from-ika, and likewise for Slack.
C1Thm ==
    inbox.ev.event = "chat_message" =>
        \A p \in posts : p.platform # inbox.src.kind

\* C1's case: an event published from Discord integration 1 went through all
\* three listeners while the integration was authorized, and was posted to
\* Slack.
C1Witness ==
    /\ inbox.ev.event = "chat_message"
    /\ inbox.src = [kind |-> "discord", id |-> 1]
    /\ inbox.pending = <<>>
    /\ \E i \in AuthorizedByChannel("discord", 1) : i.id = 1
    /\ \E p \in posts : p.platform = "slack"

\* C2 as stated: for a chat_message delivered on from-ika, whatever its
\* sender string, each listener that runs without a platform failure reaches
\* every other authorized surface of the recipient channel: the adapters post
\* to each authorized integration other than the originating one, and the
\* gateway sends a frame to each authenticated connection of another
\* application that has the channel.
C2Claim ==
    [][/\ (OnChat /\ DiscordListener({}))
            => \A i \in AuthorizedByChannel("discord",
                                            ChannelIdOf(inbox.ev.recipient)) :
                   ~IsOrigin(i) =>
                       \E p \in posts' : /\ p.platform = "discord"
                                         /\ p.target = i.target
                                         /\ p.text = inbox.ev.message
       /\ (OnChat /\ SlackListener({}))
            => \A i \in AuthorizedByChannel("slack",
                                            ChannelIdOf(inbox.ev.recipient)) :
                   ~IsOrigin(i) =>
                       \E p \in posts' : /\ p.platform = "slack"
                                         /\ p.target = i.target
                                         /\ p.text = inbox.ev.message
       /\ (OnChat /\ GatewayListener)
            => \A c \in ConnIds :
                   (/\ Connected(c)
                    /\ wsState[c].app \notin {"unset", "none"}
                    /\ ~(inbox.src.kind = "app" /\ inbox.src.id = wsState[c].app)
                    /\ Lower(inbox.ev.recipient) \in wsState[c].channels)
                       => \E f \in frames' : f.conn = c /\ f.code = "message"]_vars

\* C3 as stated: an attach from a platform channel that already has an
\* integration of the type is answered with the already-bound message and
\* creates no record, no webhook and no event.
C3Claim ==
    [][/\ \A ctx \in DiscordChannels, isText \in BOOLEAN, name \in AttachNames :
             (Bound("discord", ctx) /\ DiscordAttach(ctx, isText, name))
                 => /\ resp' = "already_bound"
                    /\ UNCHANGED <<integrations, webhooks, toIka, tasks>>
       /\ \A t \in Tasks, m \in Memberships :
             (/\ t.pc = "s_command"
              /\ Subcommand(t.text) = "attach"
              /\ Bound("slack", t.channel)
              /\ SlackHandleCommand(t, m))
                 => /\ resp' = "already_bound"
                    /\ UNCHANGED <<integrations, webhooks, toIka>>]_vars

\* C3, amended: such an attach creates no record, no webhook and no event, and
\* it is answered with the already-bound message unless a check that comes
\* first answers it: the Discord channel is not a text channel, the Slack app
\* is not a member of the channel, or the Slack command does not have exactly
\* one argument.
C3Thm ==
    [][/\ \A ctx \in DiscordChannels, isText \in BOOLEAN, name \in AttachNames :
             (Bound("discord", ctx) /\ DiscordAttach(ctx, isText, name))
                 => /\ resp' = IF isText THEN "already_bound" ELSE "channel_only"
                    /\ UNCHANGED <<integrations, webhooks, toIka, tasks>>
       /\ \A t \in Tasks, m \in Memberships :
             (/\ t.pc = "s_command"
              /\ Subcommand(t.text) = "attach"
              /\ Bound("slack", t.channel)
              /\ SlackHandleCommand(t, m))
                 => /\ resp' = IF m # "member" THEN "install_first"
                               ELSE IF Len(CommandParams(t.text)) # 2
                                       THEN "need_channel_name"
                               ELSE "already_bound"
                    /\ UNCHANGED <<integrations, webhooks, toIka>>]_vars

\* C3's case: an attach was answered already-bound, with a pending and an
\* authorized integration in the Registry.
C3Witness ==
    /\ resp = "already_bound"
    /\ \E i \in integrations : i.is_authorized
    /\ \E i \in integrations : ~i.is_authorized

\* C4 as stated: the Registry never holds two integrations of one type with
\* one target, however the attach commands interleave.
C4Claim ==
    \A i, j \in integrations :
        (i.type = j.type /\ i.target = j.target) => i = j

\* C5 as stated: for each type at most one integration references an IRC
\* channel.
C5Claim ==
    \A i, j \in integrations :
        (i.type = j.type /\ i.channel = j.channel) => i = j

\* C6 as stated: while an integration is pending, (a) a message from its
\* platform channel publishes no chat_message and leaves no task that would,
\* and (b) a chat_message for its IRC channel is not posted to its platform
\* channel.
C6Claim ==
    [][/\ \A m \in DiscordMessages :
             ((\E i \in integrations : /\ i.type = "discord"
                                       /\ i.target = m.channel
                                       /\ ~i.is_authorized)
              /\ on_message(m))
                 => UNCHANGED <<toIka, tasks>>
       /\ \A t \in Tasks :
             (/\ t.pc = "s_event"
              /\ \E i \in integrations : /\ i.type = "slack"
                                         /\ i.target = t.event.channel
                                         /\ ~i.is_authorized
              /\ handle_events(t))
                 => tasks' = tasks (-) SetToBag({t})
       /\ \A gone \in SUBSET DiscordChannels, failing \in SUBSET SlackChannels :
             (OnChat /\ (DiscordListener(gone) \/ SlackListener(failing)))
                 => \A i \in integrations :
                        (~i.is_authorized
                         /\ i.channel = ChannelIdOf(inbox.ev.recipient))
                            => ~\E p \in posts' \ posts :
                                   p.platform = i.type /\ p.target = i.target]_vars

\* C7 as stated: a step that adds a record to the Registry adds exactly one,
\* pending, and publishes on to-ika exactly one add_integration event that
\* carries the record's id and the name of its IRC channel.
C7Claim ==
    [][\A r \in Added :
           /\ integrations' = integrations \cup {r}
           /\ ~r.is_authorized
           /\ Len(toIka') = Len(toIka) + 1
           /\ SubSeq(toIka', 1, Len(toIka)) = toIka
           /\ toIka'[Len(toIka')].ev =
                  [event |-> "add_integration",
                   channel |-> ChannelNameOf(r.channel),
                   integrationId |-> r.id]]_vars

\* C8 as stated: once the relay has handled the add_integration event of the
\* pending integration of C1 on 'general', the integration is authorized;
\* and 'hello' of default type from C1, with the integration authorized, is
\* published as exactly one chat_message with recipient 'general'.
C8Claim ==
    [][/\ (/\ inbox.ev.event = "add_integration"
           /\ \E i \in integrations : /\ i.id = inbox.ev.integrationId
                                      /\ i.type = "discord"
           /\ DiscordListener({}))
            => \A i \in integrations' :
                   i.id = inbox.ev.integrationId => i.is_authorized
       /\ \A m \in DiscordMessages :
             (/\ m.channel = "C1" /\ m.type = "default"
              /\ m.author = HumanUserId /\ m.lines = <<"hello">>
              /\ AuthorizedByTarget("discord", "C1") # {}
              /\ on_message(m))
                 => /\ UNCHANGED tasks
                    /\ Len(toIka') = Len(toIka) + 1
                    /\ toIka'[Len(toIka')].ev.event = "chat_message"
                    /\ toIka'[Len(toIka')].ev.recipient = "general"
                    /\ toIka'[Len(toIka')].ev.message = "hello"]_vars

\* C9 as stated: a detach from a platform channel with no integration of the
\* type is answered not-bound, publishes nothing, deletes no webhook and
\* leaves the Registry unchanged.
C9Claim ==
    [][/\ \A ctx \in DiscordChannels :
             (~Bound("discord", ctx) /\ DiscordDetach(ctx))
                 => /\ resp' = "not_bound"
                    /\ UNCHANGED <<integrations, webhooks, toIka, tasks>>
       /\ \A t \in Tasks, m \in Memberships :
             (/\ t.pc = "s_command"
              /\ Subcommand(t.text) = "detach"
              /\ ~Bound("slack", t.channel)
              /\ SlackHandleCommand(t, m))
                 => /\ resp' = "not_bound"
                    /\ UNCHANGED <<integrations, webhooks, toIka>>]_vars

\* C9, amended: such a detach publishes nothing, deletes no webhook and leaves
\* the Registry unchanged, and it is answered not-bound unless (Slack) the app
\* is not a member of the channel, which is answered first.
C9Thm ==
    [][/\ \A ctx \in DiscordChannels :
             (~Bound("discord", ctx) /\ DiscordDetach(ctx))
                 => /\ resp' = "not_bound"
                    /\ UNCHANGED <<integrations, webhooks, toIka, tasks>>
       /\ \A t \in Tasks, m \in Memberships :
             (/\ t.pc = "s_command"
              /\ Subcommand(t.text) = "detach"
              /\ ~Bound("slack", t.channel)
              /\ SlackHandleCommand(t, m))
                 => /\ resp' = IF m # "member" THEN "install_first"
                               ELSE "not_bound"
                    /\ UNCHANGED <<integrations, webhooks, toIka>>]_vars

\* C9's case: a detach was answered not-bound while the Registry holds
\* integrations of other platform channels.
C9Witness ==
    /\ resp = "not_bound"
    /\ integrations # {}

\* The requests C10 is about: the signature check fails (no headers count as
\* that), or the timestamp is more than 5 minutes from now.
Refused(sig) == ~sig.hasHeaders \/ ~sig.sigOk \/ sig.age > 5 * 60

\* C10: a Slack events or slash-command request whose signature check fails
\* or whose timestamp is more than 5 minutes off is answered 401, starts no
\* handler task, publishes nothing and leaves the Registry as it is.
C10Thm ==
    [][\/ (resp' = "401" /\ UNCHANGED <<tasks, toIka, regVars, busVars>>)
       \/ ~\E sig \in {g \in Signings : Refused(g)} :
              \/ \E outer \in SlackOuters : receive_events(sig, outer)
              \/ \E c \in CommandChannels, text \in SlackTexts :
                     SlackReceiveCommand(sig, c, text)]_vars

\* C10's case: a request was answered 401 while an authorized integration
\* exists and no handler task runs.
C10Witness ==
    /\ resp = "401"
    /\ tasks = EmptyBag
    /\ \E i \in integrations : i.is_authorized

\* The chat_message a step appended to to-ika, if it appended exactly one.
Appended(message) ==
    /\ Len(toIka') = Len(toIka) + 1
    /\ SubSeq(toIka', 1, Len(toIka)) = toIka
    /\ toIka'[Len(toIka')].ev.event = "chat_message"
    /\ toIka'[Len(toIka')].ev.recipient = "general"
    /\ toIka'[Len(toIka')].ev.message = message

\* The publishing tasks a step started or moved on.
NewPublishing == {u \in BagToSet(tasks') : u.pc = "publish" /\ u \notin Tasks}

\* C11 as stated: a text of exactly 5 lines from an authorized integration is
\* published line by line, all 5 lines in order (the first by the handler's
\* first publish, the others left to its loop, which publishes its next line
\* at each step); a text of 6 lines or more is published as one chat_message
\* holding the snippet reference.
C11Claim ==
    [][/\ \A m \in LineMessages :
             ~on_message(m)
             \/ IF Len(m.lines) > 5
                   THEN Appended("snippet_url") /\ NewPublishing = {}
                   ELSE /\ Appended(m.lines[1])
                        /\ \E u \in NewPublishing : u.lines = Tail(m.lines)
       /\ \A t \in Tasks :
             ~(t.pc = "s_event" /\ handle_events(t))
             \/ \E u \in NewPublishing :
                    u.lines = IF Len(t.event.lines) > 5
                                 THEN <<"snippet_url">>
                                 ELSE t.event.lines
       /\ \A t \in Tasks :
             ~PublishLine(t)
             \/ /\ Appended(Head(t.lines))
                /\ \/ Tail(t.lines) = <<>> /\ NewPublishing = {}
                   \/ \E u \in NewPublishing : u.lines = Tail(t.lines)]_vars

\* The application a token names: its id, "@", its secret key.
TokenOf(a) == <<a.id, "@", a.secret_key>>
Slugs == {a.slug : a \in Applications}

\* The connection is in the list after the step.
StillOpen(c) == \E n \in 1..Len(websockets') : websockets'[n] = c

\* C12 as stated: an authenticate with a token that matches no application
\* (one without "@" included) is answered invalid_token and leaves the
\* connection open and unauthenticated; a message on a connection that is not
\* authenticated is answered unauthorized, publishes nothing and leaves the
\* connection open.
C12Claim ==
    [][/\ \A c \in ConnIds, token \in Tokens :
             ~((\A a \in Applications : token # TokenOf(a))
               /\ WsAuthenticate(c, token))
             \/ /\ resp' = "invalid_token"
                /\ StillOpen(c)
                /\ wsState'[c].app \notin Slugs
       /\ \A c \in ConnIds, chat \in Chats :
             ~(wsState[c].app \notin Slugs /\ WsMessage(c, chat))
             \/ /\ resp' = "unauthorized"
                /\ StillOpen(c)
                /\ UNCHANGED <<toIka, busVars>>]_vars

\* The event sendMessage publishes for an application's chat.
SentEvent(a, chat) ==
    [event |-> "chat_message",
     sender |-> chat.sender \o <<"+", "!", "app@apps", "/", a.slug>>,
     recipient |-> chat.target,
     message |-> chat.message]

\* C13: a sendMessage of an authenticated application, over POST /chat or
\* over its connection, answers 'sent' and puts the same chat_message once on
\* to-ika and once on from-ika exactly when the target equals one of the
\* application's channel names ignoring case; otherwise it answers
\* 'unauthorized_channel' and publishes nothing.
C13Thm ==
    [][\A a \in Applications, chat \in Chats :
           ~(\/ post_chat(TokenOf(a), chat)
             \/ \E c \in ConnIds : wsState[c].app = a.slug /\ WsMessage(c, chat))
           \/ IF \E name \in a.channels : Lower(name) = Lower(chat.target)
                 THEN /\ resp' = "sent"
                      /\ Len(toIka') = Len(toIka) + 1
                      /\ SubSeq(toIka', 1, Len(toIka)) = toIka
                      /\ toIka'[Len(toIka')].ev = SentEvent(a, chat)
                      /\ inbox'.ev = SentEvent(a, chat)
                      /\ inbox'.pending = redis_listeners
                 ELSE /\ resp' = "unauthorized_channel"
                      /\ UNCHANGED <<toIka, busVars>>]_vars

\* C13's case (Scenario C): application a1, whose channel is 'general', sent
\* to 'GENERAL' and was answered 'sent'.
C13Witness ==
    /\ resp = "sent"
    /\ inbox.src.kind = "app" /\ inbox.src.id = "a1"
    /\ inbox.ev.recipient = "GENERAL"
    /\ toIka # <<>> /\ toIka[Len(toIka)].ev = inbox.ev

\* C14 as stated: when the gateway listener handles a chat_message, each
\* authenticated connection gets a "message" frame for it exactly when the
\* event was not published by the connection's own application and the
\* lower-cased recipient is among the application's lower-cased channel names,
\* whatever the sender string.
C14Claim ==
    [][(inbox.ev.event = "chat_message" /\ GatewayListener)
          => \A c \in ConnIds :
                (Connected(c) /\ wsState[c].app \in Slugs)
                   => ((\E f \in frames' : f.conn = c /\ f.code = "message"
                                           /\ f.message = inbox.ev.message)
                       <=> (/\ ~(inbox.src.kind = "app" /\ inbox.src.id = wsState[c].app)
                            /\ Lower(inbox.ev.recipient) \in
                                  {Lower(n) : n \in AppBySlug(wsState[c].app).channels}))]_vars

\* A listener's task for the event in the inbox ends in this step.
ListenerEnds == inbox.pending # <<>> /\ inbox'.pending # inbox.pending

\* C15: an event the subscriber receives on from-ika is handed to all three
\* registered listeners; the end of one listener's handling, a raise or a task
\* that never finishes included, takes only that listener off the event and
\* leaves the others their turn and the subscriber loop as it was; and after
\* the Discord listener has raised on an IRC user's chat_message the Slack
\* listener still posts it to every authorized Slack integration of the
\* channel.
C15Thm ==
    [][/\ (\E ev \in IkaEvents : IkaSend(ev)) \/ IkaForward
             => inbox'.pending = <<"gateway", "discord", "slack">>
       /\ ListenerEnds
             => /\ inbox' = [inbox EXCEPT !.pending = Tail(inbox.pending)]
                /\ subscriber' = subscriber
       /\ (\E n \in 1..3 : ListenerStalls(<<"gateway", "discord", "slack">>[n]))
             => UNCHANGED <<posts, frames, raised>>
       /\ (/\ OnChat /\ inbox.src.kind = "irc" /\ "discord" \in raised
           /\ SlackListener({}))
             => \A i \in AuthorizedByChannel("slack",
                                             ChannelIdOf(inbox.ev.recipient)) :
                    \E p \in posts' : /\ p.platform = "slack"
                                      /\ p.target = i.target
                                      /\ p.text = inbox.ev.message]_vars

\* The Discord listener raised on an IRC user's message, and the Slack
\* listener that ran after it posted the message.
C15Witness ==
    /\ inbox.ev.event = "chat_message"
    /\ inbox.src.kind = "irc"
    /\ inbox.pending = <<>>
    /\ "discord" \in raised
    /\ \E p \in posts : p.platform = "slack" /\ p.text = inbox.ev.message

\* C16 as stated: a payload on from-ika that is not JSON is dropped: no
\* listener is invoked for it, and the subscriber loop is still running
\* afterwards, so that later events are dispatched.
C16Claim ==
    [][IkaSendMalformed
          => /\ UNCHANGED <<inbox, posts, frames, raised>>
             /\ subscriber' = "running"]_vars

\* No webhook, no Registry record and no bus event comes of the step.
NoSideEffect ==
    UNCHANGED <<integrations, nextId, webhooks, nextWebhook, toIka, inbox>>

\* C17: an attach that names an IRC channel that is no known Channel (or, on
\* Slack, is answered as naming one), and a Slack attach given where the app is not
\* installed (the bot is no member of the channel, or the member list cannot
\* be had), creates no webhook, adds no Registry record and publishes nothing.
C17Thm ==
    [][/\ \A ctx \in DiscordChannels, isText \in BOOLEAN, name \in {"general", "nochan"} :
             ~DiscordAttach(ctx, isText, name)
             \/ name # "nochan"
             \/ NoSideEffect
       /\ \A t \in Tasks, m \in {"member", "not_member", "api_error"} :
             ~(t.pc = "s_command" /\ SlackHandleCommand(t, m))
             \/ ~(/\ Subcommand(t.text) = "attach"
                  /\ \/ m # "member"
                     \/ t.text = <<"attach", " ", "nochan">>
                     \/ resp' \in {"unknown_irc_channel", "install_first"})
             \/ NoSideEffect]_vars

\* An attach was just answered with the unknown channel while the Registry
\* holds a record and a webhook exists.
C17Witness ==
    /\ resp = "unknown_irc_channel"
    /\ integrations # {}
    /\ webhooks # {}

\* C18 as stated: a remove_integration event published on to-ika has exactly
\* the fields event, channel and integrationId, the channel being the IRC
\* channel name and integrationId the id of a record that was in the Registry
\* and is deleted when the event is published.
C18Claim ==
    [][(/\ Len(toIka') = Len(toIka) + 1
        /\ toIka'[Len(toIka')].ev.event = "remove_integration")
          => LET ev == toIka'[Len(toIka')].ev
             IN /\ DOMAIN ev = {"event", "channel", "integrationId"}
                /\ \E i \in integrations :
                       /\ i.id = ev.integrationId
                       /\ ev.channel = ChannelNameOf(i.channel)
                /\ \A i \in integrations' : i.id # ev.integrationId]_vars

\* C19 as stated: a connection that is authenticated for an application and
\* is still open after a step is bound to the same application and the same
\* channel set after it, whatever the step was.
C19Claim ==
    [][\A c \in ConnIds :
          (Connected(c) /\ wsState[c].app \in Slugs /\ StillOpen(c))
             => wsState'[c] = wsState[c]]_vars

\* C20 as stated: when an adapter's listener handles a remove_integration and
\* no platform call fails, a record of the adapter's type with the event's id
\* is deleted; when the Registry holds no record with that id (the detach
\* deleted it already) the listener ends without raising and leaves the
\* Registry as it is; either way no record with that id is left.
C20Claim ==
    [][\A type \in {"discord", "slack"} :
          (/\ inbox.ev.event = "remove_integration"
           /\ IF type = "discord" THEN DiscordListener({}) ELSE SlackListener({}))
             => LET had == {i \in integrations : i.id = inbox.ev.integrationId}
                IN /\ had = {} => raised' = raised /\ integrations' = integrations
                   /\ (\E i \in had : i.type = type)
                         => \A i \in integrations' : i.id # inbox.ev.integrationId]_vars

\* C21 as stated: when an adapter's listener fans a chat_message out and the
\* delivery to one integration fails (the Discord channel is not found, the
\* Slack post raises), every other authorized integration of the recipient
\* channel, whose own delivery does not fail, still gets the message.
C21Claim ==
    [][/\ (/\ OnChat /\ inbox.src.kind = "irc"
           /\ DiscordListener({"C2"}))
             => \A i \in AuthorizedByChannel("discord",
                                             ChannelIdOf(inbox.ev.recipient)) :
                    (/\ i.target # "C2"
                     /\ \E w \in webhooks : w.channel = i.target /\ w.id = i.extra)
                       => \E p \in posts' : /\ p.platform = "discord"
                                            /\ p.target = i.target
                                            /\ p.text = inbox.ev.message
       /\ (/\ OnChat /\ inbox.src.kind = "irc"
           /\ SlackListener({"S9"}))
             => \A i \in AuthorizedByChannel("slack",
                                             ChannelIdOf(inbox.ev.recipient)) :
                    i.target # "S9"
                       => \E p \in posts' : /\ p.platform = "slack"
                                            /\ p.target = i.target
                                            /\ p.text = inbox.ev.message]_vars

\* C22 as stated: the events of two messages from one authorized Discord
\* channel are never interleaved on to-ika.  A publishing task of a Discord
\* message has published the message's first line and has lines left, so
\* while it exists every event published for its integration is the task's
\* own next line: an event of another message published now would lie
\* between two events of the task's message, whichever message came first.
C22Claim ==
    [][\A u \in Tasks :
          (/\ u.pc = "publish"
           /\ u.src.kind = "discord"
           /\ Len(toIka') = Len(toIka) + 1
           /\ toIka'[Len(toIka')].src = u.src)
             => PublishLine(u)]_vars

\* The application that sent the event, when one did: the last part of the
\* sender send_message builds.
Author(ev) == ev.sender[Len(ev.sender)]

\* C23 as stated: when the gateway's walk over the connection list for a
\* chat_message ends, every connection that is open then (no connection is
\* opened or authenticated in this specification, so it was open and bound as
\* it is during the whole walk), belongs to another application than the
\* author and has the recipient channel in its set has been sent the message,
\* whichever connections closed meanwhile.
C23Claim ==
    [][\A t \in Tasks :
          (t.pc = "broadcast" /\ BroadcastStep(t) /\ Stretch(t).kind = "done")
             => \A c \in ConnIds :
                   (/\ Connected(c)
                    /\ wsState[c].app \in Slugs
                    /\ wsState[c].app # Author(t.ev)
                    /\ Lower(t.ev.recipient) \in
                          {Lower(n) : n \in AppBySlug(wsState[c].app).channels})
                      => c \in t.sent]_vars

\* C24 as stated: the Slack listener's handling of an IRC user's chat_message
\* ends only when every authorized Slack integration of the recipient channel
\* has its acknowledged post, a post call that failed having been repeated:
\* whenever the listener ends, with a failing attempt or without, the post of
\* each such integration is there.
C24Claim ==
    [][\A failing \in {{}, {"S1"}} :
          (OnChat /\ inbox.src.kind = "irc" /\ SlackListener(failing))
             => \A i \in AuthorizedByChannel("slack",
                                             ChannelIdOf(inbox.ev.recipient)) :
                    \E p \in posts' : /\ p.platform = "slack"
                                      /\ p.target = i.target
                                      /\ p.text = inbox.ev.message]_vars

\* C25 as stated: a post an adapter's listener made, reported back to the
\* adapter by its platform, makes the adapter publish nothing: the Discord
\* handler publishes no event and starts no publishing task for it, and the
\* Slack handler ends without a publishing task.
C25Claim ==
    [][/\ \A p \in posts : DiscordEcho(p) => UNCHANGED <<toIka, tasks>>
       /\ \A t \in Tasks :
             (/\ t.pc = "s_event"
              /\ t.event.subtype = "bot_message"
              /\ handle_events(t))
                => tasks' = tasks (-) SetToBag({t})]_vars

\* The integration webhooks that exist are exactly the ones the Registry's
\* Discord integrations name, each in its integration's channel.
InStep ==
    {[id |-> w.id, channel |-> w.channel] : w \in webhooks}
        = {[id |-> i.extra, channel |-> i.target] :
               i \in {j \in integrations : j.type = "discord"}}

\* C26 as stated: when the webhooks and the Registry are in step and the
\* Discord listener handles a remove_integration event without a platform
\* failure, they are in step afterwards.
C26Claim ==
    [][(/\ InStep
        /\ inbox.ev.event = "remove_integration"
        /\ DiscordListener({}))
          => InStep']_vars

====
